---- MODULE Spec2Model ----
(***************************************************************************)
(* Model of frontend/src/utils/localStorage.ts (TypedLocalStorage,         *)
(* ZodLocalStorage) and of derefNotNull.                                   *)
(*                                                                         *)
(* JavaScript values are records [t, n, s]: t is the kind, n the number    *)
(* (or 0/1 for a boolean), s the characters of a string.  A text is a      *)
(* sequence of one-character strings, so that JSON.stringify and           *)
(* JSON.parse are computed character by character.                         *)
(***************************************************************************)
EXTENDS Integers, Sequences, FiniteSets, TLC

\* ------------------------------------------------------------------ bounds
\* Numbers passed to set() range over 0..MaxNum.
MaxNum == 1

\* ------------------------------------------------------------ JS values
Undefined == [t |-> "undefined", n |-> 0, s |-> <<>>]
Null == [t |-> "null", n |-> 0, s |-> <<>>]
NaN == [t |-> "nan", n |-> 0, s |-> <<>>]
Bool(b) == [t |-> "boolean", n |-> IF b THEN 1 ELSE 0, s |-> <<>>]
Num(n) == [t |-> "number", n |-> n, s |-> <<>>]
Str(s) == [t |-> "string", n |-> 0, s |-> s]

Q == "\""
Dark == <<"d", "a", "r", "k">>
Light == <<"l", "i", "g", "h", "t">>

\* JavaScript truthiness, as the conditional operator `item ? .. : ..` applies it.
Truthy(v) ==
    CASE v.t = "string" -> v.s # <<>>
      [] v.t = "number" -> v.n # 0
      [] v.t = "boolean" -> v.n = 1
      [] OTHER -> FALSE

\* The result of a call: a returned value or a raised error, the store
\* after the call, and how often the default producer was invoked.
Returned(v, store, calls) ==
    [raised |-> FALSE, value |-> v, error |-> "", message |-> "",
     store |-> store, calls |-> calls]
Raised(e, msg, store, calls) ==
    [raised |-> TRUE, value |-> Undefined, error |-> e, message |-> msg,
     store |-> store, calls |-> calls]

\* ------------------------------------------------------------------ JSON
Digits == <<"0", "1", "2", "3", "4", "5", "6", "7", "8", "9">>
IsDigit(c) == \E i \in 1..10 : Digits[i] = c
DigitVal(c) == (CHOOSE i \in 1..10 : Digits[i] = c) - 1

RECURSIVE NatToText(_)
NatToText(n) ==
    IF n < 10 THEN <<Digits[n + 1]>>
    ELSE NatToText(n \div 10) \o <<Digits[(n % 10) + 1]>>

RECURSIVE TextToNat(_)
TextToNat(t) ==
    IF t = <<>> THEN 0
    ELSE TextToNat(SubSeq(t, 1, Len(t) - 1)) * 10 + DigitVal(t[Len(t)])

\* JSON.stringify on the scalar values: undefined has no JSON text (the
\* result is undefined), a non-finite number is written as null.
JSON_stringify(v) ==
    CASE v.t = "undefined" -> Undefined
      [] v.t = "null" -> Str(<<"n", "u", "l", "l">>)
      [] v.t = "nan" -> Str(<<"n", "u", "l", "l">>)
      [] v.t = "boolean" ->
            IF v.n = 1 THEN Str(<<"t", "r", "u", "e">>)
            ELSE Str(<<"f", "a", "l", "s", "e">>)
      [] v.t = "number" ->
            IF v.n < 0 THEN Str(<<"-">> \o NatToText(-v.n)) ELSE Str(NatToText(v.n))
      [] v.t = "string" -> Str(<<Q>> \o v.s \o <<Q>>)

RECURSIVE TrimLeft(_)
TrimLeft(t) == IF t # <<>> /\ Head(t) = " " THEN TrimLeft(Tail(t)) ELSE t
RECURSIVE TrimRight(_)
TrimRight(t) ==
    IF t # <<>> /\ t[Len(t)] = " " THEN TrimRight(SubSeq(t, 1, Len(t) - 1)) ELSE t

IsJsonInt(t) ==
    LET body == IF t # <<>> /\ Head(t) = "-" THEN Tail(t) ELSE t
    IN  /\ body # <<>>
        /\ \A i \in 1..Len(body) : IsDigit(body[i])
        /\ (Len(body) > 1 => body[1] # "0")

JsonIntVal(t) == IF Head(t) = "-" THEN 0 - TextToNat(Tail(t)) ELSE TextToNat(t)

IsJsonString(t) ==
    /\ Len(t) >= 2
    /\ t[1] = Q
    /\ t[Len(t)] = Q
    /\ \A i \in 2..(Len(t) - 1) : t[i] \notin {Q, "\\"}

\* JSON.parse on texts over letters, digits, '-', '"' and the space: the
\* literals, the integers and the strings without escapes are JSON; every
\* other text over these characters is a SyntaxError.
JSON_parse(text) ==
    LET t == TrimRight(TrimLeft(text))
    IN  CASE t = <<"n", "u", "l", "l">> -> [raised |-> FALSE, value |-> Null]
          [] t = <<"t", "r", "u", "e">> -> [raised |-> FALSE, value |-> Bool(TRUE)]
          [] t = <<"f", "a", "l", "s", "e">> -> [raised |-> FALSE, value |-> Bool(FALSE)]
          [] IsJsonInt(t) -> [raised |-> FALSE, value |-> Num(JsonIntVal(t))]
          [] IsJsonString(t) ->
                [raised |-> FALSE, value |-> Str(SubSeq(t, 2, Len(t) - 1))]
          [] OTHER -> [raised |-> TRUE, value |-> Undefined]

\* --------------------------------------------------- window.localStorage
\* The store maps the keys that have an entry to their text.  The
\* environment decides whether it can be used: "ok"; "quota", every write
\* fails with QuotaExceededError; "denied", every read and write fails with
\* SecurityError.
Keys == {"theme", "other"}
Modes == {"ok", "quota", "denied"}

\* The conversion of a setItem argument to a DOMString.
ToDOMString(v) ==
    IF v.t = "string" THEN v.s
    ELSE <<"u", "n", "d", "e", "f", "i", "n", "e", "d">>

getItem(store, md, key) ==
    IF md = "denied" THEN Raised("SecurityError", "", store, 0)
    ELSE IF key \in DOMAIN store THEN Returned(Str(store[key]), store, 0)
    ELSE Returned(Null, store, 0)

setItem(store, md, key, value) ==
    IF md = "denied" THEN Raised("SecurityError", "", store, 0)
    ELSE IF md = "quota" THEN Raised("QuotaExceededError", "", store, 0)
    ELSE Returned(Undefined,
                  [k \in DOMAIN store \cup {key} |->
                      IF k = key THEN ToDOMString(value) ELSE store[k]],
                  0)

\* Removing an entry is not a read or a write of a text: it has no failure.
removeItem(store, key) ==
    Returned(Undefined, [k \in DOMAIN store \ {key} |-> store[k]], 0)

\* ------------------------------------------------------ TypedLocalStorage
\* new TypedLocalStorage(key, defaultValue)
TypedLocalStorage(key, defaultValue) ==
    [class |-> "TypedLocalStorage", key |-> key, defaultValue |-> defaultValue,
     schema |-> "none"]

\* get() that falls back on every falsy decoded value:
\* `JSON.parse(item) || this.defaultValue`.
TypedLocalStorage_get_orDefault(self, store, md) ==
    LET item == getItem(store, md, self.key)
    IN  IF item.raised THEN Returned(self.defaultValue, item.store, 0)
        ELSE IF Truthy(item.value)
             THEN LET parsed == JSON_parse(item.value.s)
                  IN  IF parsed.raised \/ ~Truthy(parsed.value)
                      THEN Returned(self.defaultValue, item.store, 0)
                      ELSE Returned(parsed.value, item.store, 0)
             ELSE Returned(self.defaultValue, item.store, 0)

\* get() whose try block covers only the read, not JSON.parse.
TypedLocalStorage_get_parseUncaught(self, store, md) ==
    LET item == getItem(store, md, self.key)
    IN  IF item.raised THEN Returned(self.defaultValue, item.store, 0)
        ELSE IF Truthy(item.value)
             THEN LET parsed == JSON_parse(item.value.s)
                  IN  IF parsed.raised THEN Raised("SyntaxError", "", item.store, 0)
                      ELSE Returned(parsed.value, item.store, 0)
             ELSE Returned(self.defaultValue, item.store, 0)

\* get() that stores the default it falls back on.
TypedLocalStorage_get_persist(self, store, md) ==
    LET item == getItem(store, md, self.key)
        fallback == setItem(store, "ok", self.key, JSON_stringify(self.defaultValue))
    IN  IF item.raised THEN Returned(self.defaultValue, item.store, 0)
        ELSE IF Truthy(item.value)
             THEN LET parsed == JSON_parse(item.value.s)
                  IN  IF parsed.raised
                      THEN Returned(self.defaultValue, fallback.store, 0)
                      ELSE Returned(parsed.value, item.store, 0)
             ELSE Returned(self.defaultValue, fallback.store, 0)

TypedLocalStorage_get(self, store, md) ==
    LET item == getItem(store, md, self.key)
    IN  IF item.raised THEN Returned(self.defaultValue, item.store, 0)
        ELSE IF Truthy(item.value)
             THEN LET parsed == JSON_parse(item.value.s)
                  IN  IF parsed.raised THEN Returned(self.defaultValue, item.store, 0)
                      ELSE Returned(parsed.value, item.store, 0)
             ELSE Returned(self.defaultValue, item.store, 0)

\* set() that swallows a failed write, as get() swallows a failed read.
TypedLocalStorage_set_caught(self, store, md, value) ==
    LET w == setItem(store, md, self.key, JSON_stringify(value))
    IN  IF w.raised THEN Returned(Undefined, w.store, 0) ELSE w

TypedLocalStorage_set(self, store, md, value) ==
    setItem(store, md, self.key, JSON_stringify(value))

\* -------------------------------------------------------- ZodLocalStorage
\* The schemas a store is constructed with: z.string(), z.number(), and
\* z.string().nullable().transform((v) => v ?? "light"), whose result differs
\* from the decoded value.
Schemas == {"string", "number", "nullable"}

SchemaParse(schema, v) ==
    CASE schema = "string" /\ v.t = "string" -> [raised |-> FALSE, value |-> v]
      [] schema = "number" /\ v.t = "number" -> [raised |-> FALSE, value |-> v]
      [] schema = "nullable" /\ v.t = "string" -> [raised |-> FALSE, value |-> v]
      [] schema = "nullable" /\ v.t = "null" -> [raised |-> FALSE, value |-> Str(Light)]
      [] OTHER -> [raised |-> TRUE, value |-> Undefined]

\* new ZodLocalStorage(key, schema, getDefaultValue)
ZodLocalStorage(key, schema) ==
    [class |-> "ZodLocalStorage", key |-> key, defaultValue |-> Undefined,
     schema |-> schema]

\* A default computed once, at construction, and kept.
getDefaultValue_cached(src) == Str(Light)

\* The default producer reads the value its environment holds at the call;
\* it always returns.
getDefaultValue(src) == src

ZodLocalStorage_get(self, store, md, src) ==
    LET item == getItem(store, md, self.key)
    IN  IF item.raised THEN Returned(getDefaultValue(src), item.store, 1)
        ELSE IF Truthy(item.value)
             THEN LET parsed == JSON_parse(item.value.s)
                  IN  IF parsed.raised
                      THEN Returned(getDefaultValue(src), item.store, 1)
                      ELSE LET valid == SchemaParse(self.schema, parsed.value)
                           IN  IF valid.raised
                               THEN Returned(getDefaultValue(src), item.store, 1)
                               ELSE Returned(valid.value, item.store, 0)
             ELSE Returned(getDefaultValue(src), item.store, 1)

\* set() that validates first and writes only what the schema accepts.
ZodLocalStorage_set_validated(self, store, md, value) ==
    IF SchemaParse(self.schema, value).raised
    THEN Returned(Undefined, store, 0)
    ELSE setItem(store, md, self.key, JSON_stringify(value))

ZodLocalStorage_set(self, store, md, value) ==
    setItem(store, md, self.key, JSON_stringify(value))

\* remove() that empties the whole store: `window.localStorage.clear()`.
ZodLocalStorage_remove_clear(self, store) == Returned(Undefined, <<>>, 0)

ZodLocalStorage_remove(self, store) == removeItem(store, self.key)

\* ----------------------------------------------------------- derefNotNull
NullMessage == "Attempting to dereference null object."

\* A check that lets null through: `value === undefined`.
derefNotNull_undefinedOnly(current) ==
    IF current = Undefined
    THEN [raised |-> TRUE, value |-> Undefined, error |-> "ReferenceError",
          message |-> NullMessage, calls |-> 0]
    ELSE [raised |-> FALSE, value |-> current, error |-> "", message |-> "",
          calls |-> 0]

\* A check on falsiness: `!value`.
derefNotNull_falsy(current) ==
    IF ~Truthy(current)
    THEN [raised |-> TRUE, value |-> Undefined, error |-> "ReferenceError",
          message |-> NullMessage, calls |-> 0]
    ELSE [raised |-> FALSE, value |-> current, error |-> "", message |-> "",
          calls |-> 0]

derefNotNull(current) ==
    IF current = Null
    THEN [raised |-> TRUE, value |-> Undefined, error |-> "ReferenceError",
          message |-> NullMessage, calls |-> 0]
    ELSE [raised |-> FALSE, value |-> current, error |-> "", message |-> "",
          calls |-> 0]

\* ------------------------------------------------------------------ state
\* The values handed to set(), the texts another writer of the same origin
\* leaves in the store, the defaults and the contents of a reference cell.
Strings == {<<>>, Dark}
SetValues ==
    {Undefined, Null, NaN, Bool(FALSE)}
        \cup {Num(n) : n \in 0..MaxNum} \cup {Str(s) : s \in Strings}
ExternalTexts == {<<>>, Dark, <<" ", "1">>, <<Q>> \o Light \o <<Q>>}
Defaults == {Str(Light), Num(0)}
RefValues ==
    {Null, Undefined, Bool(FALSE), Bool(TRUE), Str(<<>>), Str(Dark), Str(Light)}
        \cup {Num(n) : n \in 0..MaxNum}

VARIABLES
    this,           \* the store object the program constructed
    storage,        \* window.localStorage: key -> text, for the keys present
    mode,           \* whether window.localStorage can be read and written
    source,         \* the value ZodLocalStorage.getDefaultValue reads
    ref,            \* ref.current of the cell handed to derefNotNull
    last,           \* the last call: operation, argument and result
    prev,           \* the call before it: operation, argument, raised or not
    derefFailed     \* some earlier derefNotNull call raised

vars == <<this, storage, mode, source, ref, last, prev, derefFailed>>

Call(op, arg, r) ==
    [op |-> op, arg |-> arg, raised |-> r.raised, value |-> r.value,
     error |-> r.error, message |-> r.message, calls |-> r.calls]
Summary(c) == [op |-> c.op, arg |-> c.arg, raised |-> c.raised]
NoCall(op) == Call(op, Undefined, Returned(Undefined, <<>>, 0))

Init ==
    /\ this \in {TypedLocalStorage("theme", d) : d \in Defaults}
                  \cup {ZodLocalStorage("theme", z) : z \in Schemas}
    /\ storage = <<>>
    /\ mode = "ok"
    /\ source = Str(Light)
    /\ ref = Null
    /\ last = NoCall("new")
    /\ prev = Summary(NoCall("new"))
    /\ derefFailed = FALSE

\* A call of a store method: the store and the record of the call change.
StoreCall(op, arg, r) ==
    /\ storage' = r.store
    /\ last' = Call(op, arg, r)
    /\ prev' = Summary(last)
    /\ UNCHANGED <<this, mode, source, ref, derefFailed>>

TypedGet ==
    /\ this.class = "TypedLocalStorage"
    /\ StoreCall("get", Undefined,
                 TypedLocalStorage_get(this, storage, mode))

TypedSet ==
    /\ this.class = "TypedLocalStorage"
    /\ \E v \in SetValues :
          StoreCall("set", v, TypedLocalStorage_set(this, storage, mode, v))

ZodGet ==
    /\ this.class = "ZodLocalStorage"
    /\ StoreCall("get", Undefined,
                 ZodLocalStorage_get(this, storage, mode, source))

ZodSet ==
    /\ this.class = "ZodLocalStorage"
    /\ \E v \in SetValues :
          StoreCall("set", v, ZodLocalStorage_set(this, storage, mode, v))

ZodRemove ==
    /\ this.class = "ZodLocalStorage"
    /\ StoreCall("remove", Undefined, ZodLocalStorage_remove(this, storage))

DerefNotNull ==
    LET r == derefNotNull(ref)
    IN  /\ last' = Call("derefNotNull", Undefined, r)
        /\ prev' = Summary(last)
        /\ derefFailed' = (derefFailed \/ r.raised)
        /\ UNCHANGED <<this, storage, mode, source, ref>>

\* The environment: another writer of the origin, the availability of the
\* store, the value the default producer reads, the owner of the cell.
Environment ==
    /\ last' = NoCall("external")
    /\ prev' = Summary(last)

ExternalWrite ==
    \E k \in Keys, t \in ExternalTexts :
        /\ storage' = [j \in DOMAIN storage \cup {k} |-> IF j = k THEN t ELSE storage[j]]
        /\ Environment
        /\ UNCHANGED <<this, mode, source, ref, derefFailed>>

ModeChange ==
    \E m \in Modes \ {mode} :
        /\ mode' = m
        /\ Environment
        /\ UNCHANGED <<this, storage, source, ref, derefFailed>>

SourceChange ==
    \E d \in Defaults \ {source} :
        /\ this.class = "ZodLocalStorage"
        /\ source' = d
        /\ Environment
        /\ UNCHANGED <<this, storage, mode, ref, derefFailed>>

RefChange ==
    \E x \in RefValues \ {ref} :
        /\ ref' = x
        /\ last' = Call("assign", x, Returned(Undefined, <<>>, 0))
        /\ prev' = Summary(last)
        /\ UNCHANGED <<this, storage, mode, source, derefFailed>>

\* A store over window.localStorage and its environment.
Next ==
    \/ TypedGet
    \/ TypedSet
    \/ ZodGet
    \/ ZodSet
    \/ ZodRemove
    \/ ExternalWrite
    \/ ModeChange
    \/ SourceChange

Spec == Init /\ [][Next]_vars

\* derefNotNull and the owner of the cell.
InitRef == Init /\ this = TypedLocalStorage("theme", Str(Light))

NextRef ==
    \/ DerefNotNull
    \/ RefChange

SpecRef == InitRef /\ [][NextRef]_vars

\* ------------------------------------------------------------- properties
IsTyped == this.class = "TypedLocalStorage"
IsZod == this.class = "ZodLocalStorage"
Present == this.key \in DOMAIN storage
\* The values JSON text represents faithfully: not undefined, not a
\* non-finite number.
JsonPreserves(v) == v.t \notin {"undefined", "nan"}
\* A get() that directly follows a set() that completed.
GetAfterSet == last.op = "get" /\ prev.op = "set" /\ ~prev.raised

\* C1: on a Typed Store, a get() that directly follows a successful set(v)
\* returns v, for every v that JSON preserves, the falsy ones included.
C1_RoundTrip ==
    (IsTyped /\ GetAfterSet /\ JsonPreserves(prev.arg))
        => (~last.raised /\ last.value = prev.arg)

C1_Witness ==
    /\ IsTyped /\ GetAfterSet
    /\ prev.arg = Bool(FALSE) /\ last.value = Bool(FALSE)
    /\ this.defaultValue = Str(Light)

\* C2: get() of a Typed Store never raises, and returns the configured
\* default when the key is absent, the text is empty or is not JSON, or the
\* read fails.
C2_GetFailsSafe ==
    (IsTyped /\ last.op = "get")
        => /\ ~last.raised
           /\ (\/ mode = "denied"
               \/ ~Present
               \/ storage[this.key] = <<>>
               \/ JSON_parse(storage[this.key]).raised)
                  => last.value = this.defaultValue

C2_Witness ==
    /\ IsTyped /\ last.op = "get" /\ mode = "ok"
    /\ Present /\ storage[this.key] = Dark
    /\ ~last.raised /\ last.value = this.defaultValue

\* What get() of a Validated Store finds at its key: nothing it can use
\* (no entry, a failed read, empty or non-JSON text, a decoded value the
\* schema rejects), or a text that decodes and validates.
Decoded == JSON_parse(storage[this.key])
Validated == SchemaParse(this.schema, Decoded.value)
Unusable ==
    \/ mode = "denied"
    \/ ~Present
    \/ storage[this.key] = <<>>
    \/ Decoded.raised
    \/ Validated.raised

\* C3: get() of a Validated Store never raises; when the entry is unusable it
\* invokes the default producer in that call and returns what it produced
\* then, and otherwise it returns the validator's result.
C3_ValidatedGet ==
    (IsZod /\ last.op = "get")
        => /\ ~last.raised
           /\ Unusable => (last.calls = 1 /\ last.value = source)
           /\ ~Unusable => (last.calls = 0 /\ last.value = Validated.value)

C3_Witness ==
    /\ IsZod /\ last.op = "get" /\ this.schema = "number" /\ mode = "ok"
    /\ Present /\ ~Decoded.raised /\ Validated.raised
    /\ source = Num(0) /\ last.value = Num(0)

InT(v) == v.t = this.defaultValue.t

\* C5 as stated: whenever the text at the key does not deserialize to a
\* value of T (for the Typed Store also JSON whose decoded value is not in
\* T), get() returns the default.
C5_AsStated ==
    (last.op = "get" /\ mode = "ok" /\ Present)
        => /\ (IsTyped /\ (Decoded.raised \/ ~InT(Decoded.value)))
                => last.value = this.defaultValue
           /\ (IsZod /\ (Decoded.raised \/ Validated.raised))
                => last.value = source

\* C5 amended: the Typed Store returns the default for a text that is empty
\* or not JSON, and the decoded value, of whatever type, for a text that is
\* JSON; the Validated Store returns the default for a text that is not
\* JSON or that the schema rejects.
C5_EntryInvariant ==
    (last.op = "get" /\ mode = "ok" /\ Present)
        => /\ IsTyped =>
                last.value = (IF storage[this.key] = <<>> \/ Decoded.raised
                              THEN this.defaultValue ELSE Decoded.value)
           /\ (IsZod /\ (Decoded.raised \/ Validated.raised))
                => last.value = source

C5_Witness ==
    /\ IsTyped /\ last.op = "get" /\ mode = "ok" /\ Present
    /\ this.defaultValue = Str(Light)
    /\ ~Decoded.raised /\ ~InT(Decoded.value)
    /\ last.value = Num(1)

\* C6: set() of either store ends in an error at its caller exactly when the
\* write fails, with the error of the write.
C6_WriteFailurePropagates ==
    last.op = "set" =>
        /\ last.raised = (mode # "ok")
        /\ mode = "quota" => last.error = "QuotaExceededError"
        /\ mode = "denied" => last.error = "SecurityError"

C6_Witness ==
    /\ IsTyped /\ last.op = "set" /\ mode = "quota"
    /\ last.raised /\ last.error = "QuotaExceededError"

\* C7: derefNotNull on a cell holding null raises a ReferenceError with the
\* message "Attempting to dereference null object.", returns nothing and
\* leaves the cell as it was.
C7_DerefNull ==
    [][(last'.op = "derefNotNull" /\ ref = Null) =>
            /\ last'.raised
            /\ last'.error = "ReferenceError"
            /\ last'.message = "Attempting to dereference null object."
            /\ last'.value = Undefined
            /\ ref' = Null]_vars

C7_Witness ==
    /\ last.op = "derefNotNull" /\ ref = Null
    /\ last.raised /\ last.message = "Attempting to dereference null object."

\* C8: derefNotNull on a cell holding a value other than null returns that
\* value, does not raise and changes nothing, also after an earlier call
\* that raised.
C8_DerefValue ==
    [][(last'.op = "derefNotNull" /\ ref # Null) =>
            /\ ~last'.raised
            /\ last'.value = ref
            /\ ref' = ref
            /\ UNCHANGED <<this, storage, mode, source>>]_vars

C8_Witness ==
    /\ last.op = "derefNotNull" /\ prev.op = "assign" /\ derefFailed
    /\ ref = Num(0) /\ ~last.raised /\ last.value = Num(0)

\* C9: get() of either store leaves the whole store as it was: the default
\* is not written, an invalid entry is neither deleted nor repaired.
C9_GetReadOnly ==
    [][last'.op = "get" => storage' = storage]_vars

C9_Witness ==
    /\ last.op = "get" /\ prev.op = "get" /\ mode = "ok"
    /\ Present /\ storage[this.key] = Dark /\ Decoded.raised

\* The text set(v) hands to the store: JSON.stringify(v) as a DOMString.
TextOf(v) == ToDOMString(JSON_stringify(v))

\* C10: set(v) of a Validated Store that completes leaves the text of v at
\* the key whether or not the schema accepts v; the get() that directly
\* follows returns the validator's result when the text decodes and
\* validates and the fresh default otherwise, and the text stays.
C10_SetUnconditional ==
    IsZod =>
        /\ (last.op = "set" /\ ~last.raised)
              => (Present /\ storage[this.key] = TextOf(last.arg))
        /\ GetAfterSet
              => /\ Present /\ storage[this.key] = TextOf(prev.arg)
                 /\ last.value = (IF Decoded.raised \/ Validated.raised
                                  THEN source ELSE Validated.value)

C10_Witness ==
    /\ IsZod /\ GetAfterSet /\ this.schema = "string"
    /\ prev.arg = Num(1) /\ Present /\ storage[this.key] = <<"1">>
    /\ source = Num(0) /\ last.value = Num(0)

====
